---- MODULE Spec2Model ----
(***************************************************************************)
(* Model of the inheritance bank analyzer's reconciliation core:           *)
(*   - lib/importer.py        validate_balance (balance validator)         *)
(*   - lib/llm_classifier.py  classify_by_rules, call_ollama,              *)
(*                            classify_transactions                        *)
(*   - pages/02_CSVインポート.py  step 3 (register and analyze)             *)
(*   - pages/03_分析・表示.py    account deletion, transfer list of tab 1   *)
(*   - pages/01_案件一覧.py      case creation, selection and deletion     *)
(*                                                                         *)
(* Python frames are 0-based; sequences here are 1-based, so the source's  *)
(* row i is position i + 1 of a sequence.                                  *)
(*                                                                         *)
(* Strings of the source that are not ASCII are written romanised:         *)
(*   生活費 = "seikatsuhi", 資産形成 = "shisankeisei",                      *)
(*   贈与疑い = "zoyoutagai", その他 = "sonota".                            *)
(***************************************************************************)
EXTENDS Integers, Sequences, FiniteSets, TLC

VARIABLES
    df,         \* validate_balance: the frame handed to it (rows in input order)
    indexer,    \* validate_balance: the indexer sort_values("date") produced
    validated,  \* validate_balance: its outcome, [raised, frame]
    vpc,        \* validate_balance: "load" while the input is read, then "done"
    rule_in,    \* classify_by_rules: the arguments of a direct call
    rule_out,   \* classify_by_rules: what that call returned
    table,      \* classify_transactions: the frame (the case's transactions)
    before,     \* classify_transactions: the frame handed to the last run
    runs,       \* classify_transactions: runs made on the frame so far
    use_ollama, \* classify_transactions: the use_ollama argument of the last run
    ruleCalls,  \* the last run's classify_by_rules calls, in call order
    ollamaCalls,\* the last run's call_ollama calls, in call order
    probes,     \* the last run's check_ollama_available calls
    probed,     \* the answer the last run's probe got (NoReply when it made no probe)
    db,         \* the case's persisted table (the columns the matcher reads and writes)
    outOrder,   \* analyze_transfers: the order in which the last analysis took the outgoing rows
    matchLog,   \* analyze_transfers: the pairs the last analysis accepted, in that order
    display_list,            \* analysis page: the transfer list of the page as last rendered
    confirm_delete_account,  \* analysis page: the accounts whose confirm_delete_account_ key is set
    cases,          \* case list page: the cases that exist (db_manager.get_all_cases())
    current_case,   \* case list page: session_state["current_case"], None when the key is absent
    confirm_delete, \* case list page: the cases whose confirm_delete_ key is set
    last_click      \* case list page: the button handled last and the state it found

validatorVars == <<df, indexer, validated, vpc>>
rulesVars == <<rule_in, rule_out>>
classifierVars == <<table, before, runs, use_ollama, ruleCalls, ollamaCalls, probes, probed>>
caseVars == <<db, outOrder, matchLog>>
pageVars == <<display_list, confirm_delete_account>>
listVars == <<cases, current_case, confirm_delete, last_click>>
vars == <<validatorVars, rulesVars, classifierVars, caseVars, pageVars, listVars>>

(***************************************************************************)
(* Bounds of the model.                                                    *)
(***************************************************************************)
MaxRows == 3

Dates == {1, 2}
Amounts == {0, 1}
Balances == {0, 1}
Accounts == {"A_1", "B_2"}

(***************************************************************************)
(* lib/importer.py: validate_balance                                       *)
(***************************************************************************)

\* One ledger line as load_csv and the import page hand it to the validator:
\* a deposit or a withdrawal (one of amount_in, amount_out is positive).
LedgerRows ==
    {r \in [date : Dates, amount_in : Amounts, amount_out : Amounts,
            balance : Balances, account_id : Accounts] :
        (r.amount_in = 0) # (r.amount_out = 0)}

Perms(n) == {p \in [1..n -> 1..n] : \A i, j \in 1..n : i # j => p[i] # p[j]}

\* df.sort_values("date") sorts with pandas' default kind="quicksort", which
\* pandas documents as not stable: the indexer is some permutation that puts
\* the dates in ascending order, and the order of equal dates is whatever
\* the build's argsort produces.
SortIndexers(f) ==
    {p \in Perms(Len(f)) : \A i \in 1..(Len(f) - 1) : f[p[i]].date <= f[p[i + 1]].date}

\* .sort_values(...).reset_index(drop=True): the rows taken in indexer order.
sort_values(f, p) == [i \in 1..Len(f) |-> f[p[i]]]

\* The row with the two validator columns set (df.at[i, "calc_balance"],
\* df.at[i, "is_balance_error"]).
Checked(row, calc, err) ==
    [date |-> row.date, amount_in |-> row.amount_in, amount_out |-> row.amount_out,
     balance |-> row.balance, account_id |-> row.account_id,
     calc_balance |-> calc, is_balance_error |-> err]

\* A mismatch that carries the computed value forward instead of the printed one.
NextPrevBalanceCarryComputed(err, printed, expected) == expected

\* The value of prev_balance after a row: on a mismatch the printed balance
\* (re-anchor), otherwise the expected one.
NextPrevBalance(err, printed, expected) == IF err THEN printed ELSE expected

RECURSIVE BalanceLoop(_, _, _, _)
\* for i in range(1, len(df)): ... over the sorted frame s, from position i on.
BalanceLoop(s, i, prev_balance, acc) ==
    IF i > Len(s) THEN acc
    ELSE LET current == s[i]
             expected == prev_balance + current.amount_in - current.amount_out
             err == expected # current.balance
         IN  BalanceLoop(s, i + 1,
                         NextPrevBalance(err, current.balance, expected),
                         Append(acc, Checked(current, expected, err)))

\* validate_balance(df) when the sort produced indexer p. The function has no
\* raise statement and never looks at account_id.
validate_balance(f, p) ==
    LET s == sort_values(f, p)
    IN  [raised |-> FALSE,
         frame  |-> IF Len(s) = 0 THEN <<>>
                    ELSE BalanceLoop(s, 2, s[1].balance,
                                     <<Checked(s[1], s[1].balance, FALSE)>>)]

\* One more line of the CSV is read into the frame.
LoadRow ==
    /\ vpc = "load"
    /\ Len(df) < MaxRows
    /\ \E r \in LedgerRows : df' = Append(df, r)
    /\ UNCHANGED <<indexer, validated, vpc>>
    /\ UNCHANGED <<rulesVars, classifierVars, caseVars, pageVars, listVars>>

\* importer.validate_balance(df) is called on the frame.
ValidateBalance ==
    /\ vpc = "load"
    /\ \E p \in SortIndexers(df) :
          /\ indexer' = p
          /\ validated' = validate_balance(df, p)
    /\ vpc' = "done"
    /\ UNCHANGED df
    /\ UNCHANGED <<rulesVars, classifierVars, caseVars, pageVars, listVars>>

(***************************************************************************)
(* lib/llm_classifier.py                                                   *)
(***************************************************************************)

\* None / NaN of a category cell.
None == "None"
\* NaN of a description cell (no text holds this token).
NaDesc == <<"NaN">>

seikatsuhi == "seikatsuhi"      \* 生活費
shisankeisei == "shisankeisei"  \* 資産形成
zoyoutagai == "zoyoutagai"      \* 贈与疑い
sonota == "sonota"              \* その他

\* valid_categories of call_ollama, in its order.
valid_categories == <<seikatsuhi, shisankeisei, zoyoutagai, sonota>>

\* default_patterns of load_classification_patterns; a text is the sequence
\* of its characters, each list holds some of the source's keywords.
life_keywords == << <<"i", "o", "n">>, <<"ga", "su">> >>            \* イオン, ガス
asset_keywords == << <<"sho", "ken">>, <<"tei", "ki">> >>          \* 証券, 定期
gift_keywords == << <<"furi", "komi">>, <<"so", "kin">> >>         \* 振込, 送金
other_keywords == << <<"ri", "soku">>, <<"te", "su", "ryo">> >>    \* 利息, 手数料

\* 1_000_000 of classify_by_rules.
GIFT_AMOUNT == 1000000

\* keyword in text: the keyword occurs as a substring.
Contains(text, keyword) ==
    \E i \in 0..(Len(text) - Len(keyword)) : SubSeq(text, i + 1, i + Len(keyword)) = keyword

\* any(kw in text for kw in keywords)
AnyIn(keywords, text) == \E k \in 1..Len(keywords) : Contains(text, keywords[k])

\* The rule tiers tried in another order: asset formation before living expense.
classify_by_rules_AssetFirst(text, amount_out, amount_in) ==
    IF AnyIn(asset_keywords, text) THEN shisankeisei
    ELSE IF AnyIn(life_keywords, text) THEN seikatsuhi
    ELSE IF AnyIn(gift_keywords, text)
         THEN (IF amount_out >= GIFT_AMOUNT THEN zoyoutagai ELSE seikatsuhi)
    ELSE sonota

\* classify_by_rules(text, amount_out, amount_in): the loops return at the
\* first keyword found, tier by tier; amount_in is never read.
classify_by_rules(text, amount_out, amount_in) ==
    IF AnyIn(life_keywords, text) THEN seikatsuhi
    ELSE IF AnyIn(asset_keywords, text) THEN shisankeisei
    ELSE IF AnyIn(gift_keywords, text)
         THEN (IF amount_out >= GIFT_AMOUNT THEN zoyoutagai ELSE seikatsuhi)
    ELSE IF AnyIn(other_keywords, text) THEN sonota
    ELSE sonota

\* What the HTTP layer can hand back: requests raised (timeout, connection
\* error, body that is not the expected JSON), or a status code and the text
\* of the "response" field.
Replies ==
    { [raised |-> TRUE,  status_code |-> 0,   text |-> <<>>],
      [raised |-> FALSE, status_code |-> 500, text |-> <<>>],
      [raised |-> FALSE, status_code |-> 200, text |-> <<"zoyoutagai">>],
      [raised |-> FALSE, status_code |-> 200, text |-> <<"sonota", "ka", "seikatsuhi">>],
      [raised |-> FALSE, status_code |-> 200, text |-> <<"fu", "mei">>] }

\* No request was made.
NoReply == [raised |-> FALSE, status_code |-> 0, text |-> <<>>]

\* check_ollama_available(): True only on a 200 answer.
check_ollama_available(reply) == ~reply.raised /\ reply.status_code = 200

RECURSIVE FirstValidOrNone(_, _)
\* A post-validation that hands back None when the answer holds no label.
FirstValidOrNone(result, k) ==
    IF k > Len(valid_categories) THEN None
    ELSE IF Contains(result, <<valid_categories[k]>>) THEN valid_categories[k]
    ELSE FirstValidOrNone(result, k + 1)

RECURSIVE FirstValid(_, _)
\* for cat in valid_categories: if cat in result: return cat; else "その他".
FirstValid(result, k) ==
    IF k > Len(valid_categories) THEN sonota
    ELSE IF Contains(result, <<valid_categories[k]>>) THEN valid_categories[k]
    ELSE FirstValid(result, k + 1)

\* A failed call that hands back None instead of degrading to "その他".
call_ollama_NoneOnFailure(text, reply) ==
    IF reply.raised THEN None
    ELSE IF reply.status_code = 200 THEN FirstValid(reply.text, 1)
    ELSE None

\* call_ollama(text) when the endpoint answers with reply.
call_ollama(text, reply) ==
    IF reply.raised THEN sonota
    ELSE IF reply.status_code = 200 THEN FirstValid(reply.text, 1)
    ELSE sonota

\* A target mask that forgets df["category"].isna().
IsTargetIgnoringCategory(row) ==
    row.description # NaDesc /\ row.description # <<>>

\* target_mask: description not NaN, not "", and category NaN.
IsTarget(row) ==
    row.description # NaDesc /\ row.description # <<>> /\ row.category = None

RECURSIVE Ascending(_)
\* A finite set of positions as the ascending sequence of its elements.
Ascending(S) ==
    IF S = {} THEN <<>>
    ELSE LET m == CHOOSE x \in S : \A y \in S : x <= y
         IN  <<m>> \o Ascending(S \ {m})

\* target_df.index: the positions of the target rows, in frame order.
TargetIndex(t) == Ascending({i \in 1..Len(t) : IsTarget(t[i])})

\* target_df["description"].unique(), as the position of each description's
\* first target row (unique() keeps the order of first appearance).
UniqueDescriptionRows(t) ==
    Ascending({i \in 1..Len(t) :
        /\ IsTarget(t[i])
        /\ \A j \in 1..(i - 1) : IsTarget(t[j]) => t[j].description # t[i].description})

\* One call of classify_by_rules and what it returned.
RuleCall(row) ==
    [text |-> row.description, amount_out |-> row.amount_out, amount_in |-> row.amount_in,
     result |-> classify_by_rules(row.description, row.amount_out, row.amount_in)]

\* The rule-only branch: one classify_by_rules call per target row.
RuleBranchCalls(t) ==
    LET idx == TargetIndex(t) IN [k \in 1..Len(idx) |-> RuleCall(t[idx[k]])]

\* The Ollama branch: one classify_by_rules call per unique description, with
\* the amounts of the first target row that has it.
OllamaBranchCalls(t) ==
    LET idx == UniqueDescriptionRows(t) IN [k \in 1..Len(idx) |-> RuleCall(t[idx[k]])]

\* A fallback that asks the model about every description.
GoesToOllamaAlways(rule_category) == TRUE

\* if rule_category == "その他": category = call_ollama(desc)
GoesToOllama(rule_category) == rule_category = sonota

\* The descriptions among calls that go on to call_ollama: those the rule
\* engine answered "その他".
SentToOllama(calls) ==
    {calls[k].text : k \in {n \in 1..Len(calls) : GoesToOllama(calls[n].result)}}

\* The call_ollama calls of the Ollama branch, given each description's reply.
OllamaCallsOf(calls, reply) ==
    LET sent == Ascending({n \in 1..Len(calls) : GoesToOllama(calls[n].result)})
    IN  [k \in 1..Len(sent) |->
            [text |-> calls[sent[k]].text, reply |-> reply[calls[sent[k]].text],
             result |-> call_ollama(calls[sent[k]].text, reply[calls[sent[k]].text])]]

\* classification_map after the rule-only loop: a later assignment to a key
\* replaces an earlier one.
RuleBranchMap(calls) ==
    [d \in {calls[k].text : k \in 1..Len(calls)} |->
        calls[CHOOSE k \in 1..Len(calls) :
                /\ calls[k].text = d
                /\ \A n \in (k + 1)..Len(calls) : calls[n].text # d].result]

\* classification_map after the Ollama loop: the rule result, or call_ollama's
\* when the rule result is "その他".
OllamaBranchMap(calls, reply) ==
    [d \in {calls[k].text : k \in 1..Len(calls)} |->
        LET c == calls[CHOOSE k \in 1..Len(calls) : calls[k].text = d]
        IN  IF GoesToOllama(c.result) THEN call_ollama(d, reply[d]) ELSE c.result]

\* df.loc[target_mask, "category"] = df.loc[target_mask, "description"].map(m)
FanOut(t, m) ==
    [i \in 1..Len(t) |->
        IF IsTarget(t[i]) THEN [t[i] EXCEPT !.category = m[t[i].description]] ELSE t[i]]

\* A mode selection that takes the Ollama branch whatever the probe answers.
TakesOllamaBranchIgnoringProbe(arg, probe) == arg # "False"

\* Whether the run takes the Ollama branch: the argument, or the probe's
\* answer when the argument is None.
TakesOllamaBranch(arg, probe) ==
    IF arg = None THEN check_ollama_available(probe) ELSE arg = "True"

\* classify_transactions(df, use_ollama): the frame it returns and the calls
\* it made, when the probe answers probe and call_ollama(d) gets reply[d].
classify_transactions(t, arg, probe, reply) ==
    IF Len(t) = 0 \/ TargetIndex(t) = <<>>
    THEN [table |-> t, ruleCalls |-> <<>>, ollamaCalls |-> <<>>, probes |-> 0,
          probed |-> NoReply]
    ELSE IF TakesOllamaBranch(arg, probe)
    THEN LET calls == OllamaBranchCalls(t)
         IN  [table |-> FanOut(t, OllamaBranchMap(calls, reply)),
              ruleCalls |-> calls,
              ollamaCalls |-> OllamaCallsOf(calls, reply),
              probes |-> IF arg = None THEN 1 ELSE 0,
              probed |-> IF arg = None THEN probe ELSE NoReply]
    ELSE LET calls == RuleBranchCalls(t)
         IN  [table |-> FanOut(t, RuleBranchMap(calls)),
              ruleCalls |-> calls,
              ollamaCalls |-> <<>>,
              probes |-> IF arg = None THEN 1 ELSE 0,
              probed |-> IF arg = None THEN probe ELSE NoReply]

(***************************************************************************)
(* Inputs of the classifier.                                               *)
(***************************************************************************)
MaxTx == 2
MaxRuns == 2

\* Descriptions of the rows of a case.
Descriptions ==
    { NaDesc, <<>>,
      <<"i", "o", "n">>,          \* イオン
      <<"furi", "komi">>,         \* 振込
      <<"ri", "soku">> }          \* 利息

\* Rows as they come from the database: uncategorised, or categorised by an
\* earlier session.
TxRows ==
    [description : Descriptions, amount_out : {50000, 2000000}, amount_in : {0},
     category : {None, zoyoutagai}]

\* Arguments of a direct classify_by_rules call.
RuleTexts ==
    { <<>>,
      <<"i", "o", "n">>,                         \* イオン
      <<"i", "o", "n", "sho", "ken">>,           \* イオン証券
      <<"furi", "komi", "i", "o", "n">>,         \* 振込イオン
      <<"sho", "ken", "furi", "komi">>,          \* 証券振込
      <<"furi", "komi">>,                        \* 振込
      <<"ya", "ma", "da", "so", "kin">>,         \* ヤマダ送金
      <<"ri", "soku">>,                          \* 利息
      <<"ka", "i", "hi">>,                       \* 会費
      <<"o", "n", "i">> }
RuleAmountsOut == {0, 50000, 999999, 1000000, 2000000}
RuleAmountsIn == {0, 50000, 2000000}

\* use_ollama: True, False or None.
UseOllamaArgs == {"True", "False", None}

\* classify_by_rules called on its own.
ClassifyByRules ==
    /\ \E text \in RuleTexts, o \in RuleAmountsOut, i \in RuleAmountsIn :
          /\ rule_in' = [text |-> text, amount_out |-> o, amount_in |-> i]
          /\ rule_out' = classify_by_rules(text, o, i)
    /\ UNCHANGED <<validatorVars, classifierVars, caseVars, pageVars, listVars>>

\* The answers the probe can get (requests raised, a status other than 200,
\* or 200); no probe is made when use_ollama is given.
ProbeReplies(arg) ==
    IF arg = None THEN {r \in Replies : r.text \in {<<>>, <<"fu", "mei">>}}
    ELSE {[raised |-> TRUE, status_code |-> 0, text |-> <<>>]}

\* The descriptions for which the run sends a request to the endpoint: none
\* unless it takes the Ollama branch.
AskedDescriptions(t, arg, probe) ==
    IF TakesOllamaBranch(arg, probe) THEN SentToOllama(OllamaBranchCalls(t)) ELSE {}

\* One more transaction of the case in the frame.
LoadTx ==
    /\ runs = 0
    /\ Len(table) < MaxTx
    /\ \E r \in TxRows : table' = Append(table, r)
    /\ UNCHANGED <<before, runs, use_ollama, ruleCalls, ollamaCalls, probes, probed>>
    /\ UNCHANGED <<validatorVars, rulesVars, caseVars, pageVars, listVars>>

\* classify_transactions(df, use_ollama=arg) runs on the frame.
ClassifyTransactions(arg) ==
    /\ runs < MaxRuns
    /\ \E probe \in ProbeReplies(arg) :
       \E reply \in [AskedDescriptions(table, arg, probe) -> Replies] :
          LET r == classify_transactions(table, arg, probe, reply)
          IN  /\ table' = r.table
              /\ ruleCalls' = r.ruleCalls
              /\ ollamaCalls' = r.ollamaCalls
              /\ probes' = r.probes
              /\ probed' = r.probed
    /\ before' = table
    /\ runs' = runs + 1
    /\ use_ollama' = arg
    /\ UNCHANGED <<validatorVars, rulesVars, caseVars, pageVars, listVars>>

(***************************************************************************)
(* pages/02_CSVインポート.py, step 3: register and analyze. lib/analyzer.py *)
(* and lib/db_manager.py are not among the sources: analyze_large_amounts, *)
(* analyze_transfers and the configuration defaults follow the             *)
(* specification (sections 4.2, 4.3 and 6).                                *)
(***************************************************************************)
MaxCase == 3
MaxBatch == 2

Days == {10, 11, 14}
OutAmounts == {500000, 500600}
InAmounts == {500000, 500500}

\* Configuration defaults: transfer window (days), transfer tolerance and
\* large-amount threshold (currency units).
TRANSFER_WINDOW_DAYS == 3
TRANSFER_TOLERANCE == 500
LARGE_AMOUNT_THRESHOLD == 1000000

\* null transfer_to
NoTransfer == <<>>

Abs(x) == IF x < 0 THEN 0 - x ELSE x

\* A row of the preview frame with its account_id set (page 02, line 71): a
\* withdrawal or a deposit of one account on one day.
CsvRows ==
    {r \in [account_id : Accounts, date : Days, amount_out : OutAmounts \cup {0},
            amount_in : InAmounts \cup {0}] :
        (r.amount_out = 0) # (r.amount_in = 0)}

\* The preview frames of a CSV of n rows: rows of one account, in date order
\* as validate_balance left them.
CsvBatches(n) ==
    {b \in [1..n -> CsvRows] :
        /\ \A i, j \in 1..n : b[i].account_id = b[j].account_id
        /\ \A i \in 1..(n - 1) : b[i].date <= b[i + 1].date}

\* The columns of a persisted row that come from the CSV.
Raw(row) ==
    [account_id |-> row.account_id, date |-> row.date,
     amount_out |-> row.amount_out, amount_in |-> row.amount_in]

\* pd.concat([existing_df, df], ignore_index=True)
Concat(existing, batch) == [i \in 1..Len(existing) |-> Raw(existing[i])] \o batch

\* analyze_large_amounts: is_large = amount_out >= threshold or amount_in >= threshold.
IsLarge(row) ==
    row.amount_out >= LARGE_AMOUNT_THRESHOLD \/ row.amount_in >= LARGE_AMOUNT_THRESHOLD

\* Step 1: the candidate outgoing and incoming rows.
Outgoing(t) == {k \in 1..Len(t) : t[k].amount_out > 0}
Incoming(t) == {k \in 1..Len(t) : t[k].amount_in > 0}

\* Step 2: the outgoing rows are taken by (date ascending, amount_out
\* descending); no order is fixed among rows equal in both.
OutgoingOrders(t) ==
    LET n == Cardinality(Outgoing(t))
    IN  {p \in [1..n -> Outgoing(t)] :
            /\ \A a, b \in 1..n : a # b => p[a] # p[b]
            /\ \A a \in 1..(n - 1) :
                  \/ t[p[a]].date < t[p[a + 1]].date
                  \/ /\ t[p[a]].date = t[p[a + 1]].date
                     /\ t[p[a]].amount_out >= t[p[a + 1]].amount_out}

\* A candidate test that forgets the account of the incoming row.
EligibleAnyAccount(t, o, i) ==
    /\ Abs(t[i].date - t[o].date) <= TRANSFER_WINDOW_DAYS
    /\ Abs(t[i].amount_in - t[o].amount_out) <= TRANSFER_TOLERANCE

\* Step 2: incoming row i is a candidate for outgoing row o.
Eligible(t, o, i) ==
    /\ t[i].account_id # t[o].account_id
    /\ Abs(t[i].date - t[o].date) <= TRANSFER_WINDOW_DAYS
    /\ Abs(t[i].amount_in - t[o].amount_out) <= TRANSFER_TOLERANCE

\* A choice among candidates by table order alone.
BetterByTableOrder(t, o, i, j) == i < j

\* Step 3: candidate i is preferred to candidate j for o: smaller amount
\* difference, then smaller date difference, then earlier in the table.
Better(t, o, i, j) ==
    LET ai == Abs(t[i].amount_in - t[o].amount_out)
        aj == Abs(t[j].amount_in - t[o].amount_out)
        di == Abs(t[i].date - t[o].date)
        dj == Abs(t[j].date - t[o].date)
    IN  \/ ai < aj
        \/ ai = aj /\ di < dj
        \/ ai = aj /\ di = dj /\ i < j

RECURSIVE MatchLoop(_, _, _, _, _)
\* Steps 2 to 5 for the outgoing rows order[k..]: the accepted pairs.
MatchLoop(t, order, k, consumed, log) ==
    IF k > Len(order) THEN log
    ELSE LET o == order[k]
             candidates == {i \in Incoming(t) \ consumed : Eligible(t, o, i)}
         IN  IF candidates = {} THEN MatchLoop(t, order, k + 1, consumed, log)
             ELSE LET best == CHOOSE i \in candidates :
                                  \A j \in candidates \ {i} : Better(t, o, i, j)
                  IN  MatchLoop(t, order, k + 1, consumed \cup {best},
                                Append(log, [o |-> o, i |-> best]))

\* transfer_to = "{i.account_id} {i.date}"
FormatTransferTo(row) == <<row.account_id, " ", row.date>>

\* Step 4 and 5: is_transfer on both legs of a pair, transfer_to on the
\* outgoing leg only; every other row false and null.
WithTransferColumns(t, log) ==
    [k \in 1..Len(t) |->
        [account_id |-> t[k].account_id, date |-> t[k].date,
         amount_out |-> t[k].amount_out, amount_in |-> t[k].amount_in,
         is_large |-> IsLarge(t[k]),
         is_transfer |-> \E n \in 1..Len(log) : log[n].o = k \/ log[n].i = k,
         transfer_to |-> IF \E n \in 1..Len(log) : log[n].o = k
                         THEN FormatTransferTo(t[log[CHOOSE n \in 1..Len(log) : log[n].o = k].i])
                         ELSE NoTransfer]]

\* Step 3 of the import page: the preview frame of one CSV is appended to the
\* case's table, the whole table is analysed again and saved.
RegisterCsv ==
    /\ \E n \in 1..MaxBatch :
          /\ Len(db) + n <= MaxCase
          /\ \E batch \in CsvBatches(n) :
                LET combined == Concat(db, batch)
                IN  \E order \in OutgoingOrders(combined) :
                       LET log == MatchLoop(combined, order, 1, {}, <<>>)
                       IN  /\ db' = WithTransferColumns(combined, log)
                           /\ outOrder' = order
                           /\ matchLog' = log
    /\ display_list' = <<>>
    /\ UNCHANGED confirm_delete_account
    /\ UNCHANGED <<validatorVars, rulesVars, classifierVars, listVars>>

(***************************************************************************)
(* pages/03_分析・表示.py: the account list with its delete dialog, and the  *)
(* transfer list of tab 1. db_manager.delete_account_transactions is not   *)
(* among the sources and follows the specification (sections 3 and 6).     *)
(***************************************************************************)

\* No incoming row found: the entry shows 未検出.
NotFound == 0

\* parts = transfer_info.split(" "): in_account = parts[0],
\* in_date_str = " ".join(parts[1:]).
SplitTransferTo(transfer_info) ==
    [in_account |-> transfer_info[1], in_date_str |-> transfer_info[3]]

\* in_tx = df[(account_id == in_account) & (date == out_row["date"]) &
\* (amount_in > 0)]: in_date_str is parsed but never used.
in_tx(t, out_row) ==
    LET parts == SplitTransferTo(out_row.transfer_to)
    IN  {j \in 1..Len(t) :
            /\ t[j].account_id = parts.in_account
            /\ t[j].date = out_row.date
            /\ t[j].amount_in > 0}

\* out_transfers: the rows with is_transfer and amount_out > 0, in frame
\* order; an entry is made for those whose transfer_to is set.
out_transfers(t) ==
    Ascending({k \in 1..Len(t) :
        t[k].is_transfer /\ t[k].amount_out > 0 /\ t[k].transfer_to # NoTransfer})

\* display_list of tab 1: for each outgoing transfer the account it names
\* and the incoming row shown with it (in_tx.iloc[0]), or 未検出.
TransferList(t) ==
    LET outs == out_transfers(t)
    IN  [n \in 1..Len(outs) |->
            LET found == in_tx(t, t[outs[n]])
            IN  [out_row |-> outs[n],
                 in_account |-> SplitTransferTo(t[outs[n]].transfer_to).in_account,
                 in_row |-> IF found = {} THEN NotFound
                            ELSE CHOOSE j \in found : \A i \in found : j <= i]]

\* One run of the page script over table t: st.stop() on an empty table,
\* otherwise tab 1 is rendered.
RenderPage(t) == IF t = <<>> THEN <<>> ELSE TransferList(t)

\* The accounts listed on the page (df.groupby(["account_id", "holder"])).
AccountsOf(t) == {t[k].account_id : k \in 1..Len(t)}

\* delete_account(case, account_id): all rows of the account are removed,
\* the other rows are left as they are.
delete_account_transactions(t, a) == SelectSeq(t, LAMBDA row : row.account_id # a)

\* The analysis page is opened on the case.
OpenAnalysisPage ==
    /\ db # <<>>
    /\ display_list' = RenderPage(db)
    /\ UNCHANGED confirm_delete_account
    /\ UNCHANGED <<validatorVars, rulesVars, classifierVars, caseVars, listVars>>

\* The delete button of account a: the confirm key is set, st.rerun().
RequestDeleteAccount(a) ==
    /\ a \in AccountsOf(db)
    /\ confirm_delete_account' = confirm_delete_account \cup {a}
    /\ display_list' = RenderPage(db)
    /\ UNCHANGED <<validatorVars, rulesVars, classifierVars, caseVars, listVars>>

\* キャンセル in the dialog of account a: the key is removed, st.rerun().
CancelDeleteAccount(a) ==
    /\ a \in AccountsOf(db)
    /\ a \in confirm_delete_account
    /\ confirm_delete_account' = confirm_delete_account \ {a}
    /\ display_list' = RenderPage(db)
    /\ UNCHANGED <<validatorVars, rulesVars, classifierVars, caseVars, listVars>>

\* 削除 in the dialog of account a: the account's rows are deleted, the key
\* is removed, st.rerun(); no analysis is run on the rows that remain.
ConfirmDeleteAccount(a) ==
    /\ a \in AccountsOf(db)
    /\ a \in confirm_delete_account
    /\ db' = delete_account_transactions(db, a)
    /\ confirm_delete_account' = confirm_delete_account \ {a}
    /\ display_list' = RenderPage(db')
    /\ UNCHANGED <<outOrder, matchLog>>
    /\ UNCHANGED <<validatorVars, rulesVars, classifierVars, listVars>>

(***************************************************************************)
(* pages/01_案件一覧.py: case creation, selection and deletion.              *)
(* db_manager.get_all_cases and init_db are not among the sources: a case  *)
(* is listed from init_db until its folder is removed (specification,      *)
(* section 6).                                                             *)
(***************************************************************************)

\* What can be typed into the case-name field; "" is no name.
CaseNames == {"yamada", "sato", "suzuki"}
NewCaseNames == CaseNames \cup {""}

\* db_manager.init_db(name): the case is listed from now on.
init_db(listed, name) == listed \cup {name}

\* shutil.rmtree(case_dir): the case's folder and all its data are gone.
rmtree(listed, case) == listed \ {case}

\* The handler's record of a click.
Click(button, case) ==
    [button |-> button, case |-> case, found |-> cases, asked |-> confirm_delete,
     selected |-> current_case]

\* A confirmed deletion that leaves current_case as it is.
CurrentCaseKept(cur, case) == cur

\* if session_state.get("current_case") == case: del session_state["current_case"]
CurrentCaseAfterDelete(cur, case) == IF cur = case THEN None ELSE cur

\* 作成: nothing on an empty name, an error on an existing name, otherwise
\* init_db(name).
CreateCase(name) ==
    /\ name # ""
    /\ cases' = IF name \in cases THEN cases ELSE init_db(cases, name)
    /\ last_click' = Click(IF name \in cases THEN "create_rejected" ELSE "create", name)
    /\ UNCHANGED <<current_case, confirm_delete>>
    /\ UNCHANGED <<validatorVars, rulesVars, classifierVars, caseVars, pageVars>>

\* 選択 of a listed case.
SelectCase(case) ==
    /\ case \in cases
    /\ current_case' = case
    /\ last_click' = Click("select", case)
    /\ UNCHANGED <<cases, confirm_delete>>
    /\ UNCHANGED <<validatorVars, rulesVars, classifierVars, caseVars, pageVars>>

\* 削除 of a listed case: the confirm key is set.
RequestDeleteCase(case) ==
    /\ case \in cases
    /\ confirm_delete' = confirm_delete \cup {case}
    /\ last_click' = Click("delete", case)
    /\ UNCHANGED <<cases, current_case>>
    /\ UNCHANGED <<validatorVars, rulesVars, classifierVars, caseVars, pageVars>>

\* はい、削除します in the dialog of a case: shutil.rmtree of its folder,
\* current_case cleared when it is this case, the confirm key removed.
ConfirmDeleteCase(case) ==
    /\ case \in cases
    /\ case \in confirm_delete
    /\ cases' = rmtree(cases, case)
    /\ current_case' = CurrentCaseAfterDelete(current_case, case)
    /\ confirm_delete' = confirm_delete \ {case}
    /\ last_click' = Click("confirm_yes", case)
    /\ UNCHANGED <<validatorVars, rulesVars, classifierVars, caseVars, pageVars>>

\* キャンセル in the dialog of a case: the confirm key is removed.
CancelDeleteCase(case) ==
    /\ case \in cases
    /\ case \in confirm_delete
    /\ confirm_delete' = confirm_delete \ {case}
    /\ last_click' = Click("confirm_no", case)
    /\ UNCHANGED <<cases, current_case>>
    /\ UNCHANGED <<validatorVars, rulesVars, classifierVars, caseVars, pageVars>>

Init ==
    /\ df = <<>>
    /\ indexer = <<>>
    /\ validated = [raised |-> FALSE, frame |-> <<>>]
    /\ vpc = "load"
    /\ rule_in = [text |-> <<>>, amount_out |-> 0, amount_in |-> 0]
    /\ rule_out = None
    /\ table = <<>>
    /\ before = <<>>
    /\ runs = 0
    /\ use_ollama = None
    /\ ruleCalls = <<>>
    /\ ollamaCalls = <<>>
    /\ probes = 0
    /\ probed = NoReply
    /\ db = <<>>
    /\ outOrder = <<>>
    /\ matchLog = <<>>
    /\ display_list = <<>>
    /\ confirm_delete_account = {}
    /\ cases = {}
    /\ current_case = None
    /\ confirm_delete = {}
    /\ last_click = [button |-> None, case |-> None, found |-> {}, asked |-> {},
                     selected |-> None]

NextValidator == LoadRow \/ ValidateBalance

SpecValidator == Init /\ [][NextValidator]_vars

NextRules == ClassifyByRules

SpecRules == Init /\ [][NextRules]_vars

NextClassifier ==
    \/ LoadTx
    \/ ClassifyTransactions("True")
    \/ ClassifyTransactions("False")
    \/ ClassifyTransactions(None)

SpecClassifier == Init /\ [][NextClassifier]_vars

NextCase == RegisterCsv

SpecCase == Init /\ [][NextCase]_vars

NextAnalysis ==
    \/ RegisterCsv
    \/ OpenAnalysisPage
    \/ \E a \in Accounts : RequestDeleteAccount(a)
    \/ \E a \in Accounts : CancelDeleteAccount(a)
    \/ \E a \in Accounts : ConfirmDeleteAccount(a)

SpecAnalysis == Init /\ [][NextAnalysis]_vars

NextCaseList ==
    \/ \E name \in NewCaseNames : CreateCase(name)
    \/ \E case \in CaseNames : SelectCase(case)
    \/ \E case \in CaseNames : RequestDeleteCase(case)
    \/ \E case \in CaseNames : ConfirmDeleteCase(case)
    \/ \E case \in CaseNames : CancelDeleteCase(case)

SpecCaseList == Init /\ [][NextCaseList]_vars

(***************************************************************************)
(* Balance validator: what the claims speak of.                            *)
(***************************************************************************)

\* The rows of a frame belong to one account.
SingleAccount(f) == \A i, j \in 1..Len(f) : f[i].account_id = f[j].account_id

\* The balance invariant at position i of a ledger s.
ChainHolds(s, i) == s[i].balance = s[i - 1].balance + s[i].amount_in - s[i].amount_out

Consistent(s) == \A i \in 2..Len(s) : ChainHolds(s, i)

\* The positions validate_balance flagged.
Flagged(s) == {i \in 1..Len(s) : s[i].is_balance_error}

\* s is a consistent ledger whose printed balance at position k was changed.
BalanceInjectedAt(s, k) ==
    /\ k \in 2..Len(s)
    /\ ~ChainHolds(s, k)
    /\ Consistent([s EXCEPT ![k].balance =
                       s[k - 1].balance + s[k].amount_in - s[k].amount_out])

\* s is a consistent ledger whose amounts at position k were changed.
AmountInjectedAt(s, k) ==
    /\ k \in 2..Len(s)
    /\ ~ChainHolds(s, k)
    /\ LET d == s[k].balance - s[k - 1].balance
       IN  Consistent([s EXCEPT ![k].amount_in = IF d > 0 THEN d ELSE 0,
                                ![k].amount_out = IF d < 0 THEN 0 - d ELSE 0])

\* The indexer a stable sort by date produces: equal dates keep input order.
StableIndexer(f) ==
    CHOOSE p \in SortIndexers(f) :
        \A i, j \in 1..Len(f) : (i < j /\ f[p[i]].date = f[p[j]].date) => p[i] < p[j]

\* C1 as claimed: one discrepancy injected at row k of a consistent
\* single-account ledger (a changed printed balance, or changed amounts of
\* that row) makes validate_balance flag row k and no other row. Rows are
\* counted in the order validate_balance lists them.
C1_ExactlyRowKFlagged ==
    (vpc = "done" /\ SingleAccount(df)) =>
        \A k \in 2..Len(validated.frame) :
            (BalanceInjectedAt(validated.frame, k) \/ AmountInjectedAt(validated.frame, k))
                => Flagged(validated.frame) = {k}

\* C1 amended: row k is flagged; the row after it is flagged as well exactly
\* when the discrepancy is a changed printed balance and row k is not the
\* last row (that row's own check reads the changed balance); no other row
\* is flagged.
C1_FlagsRowKAndSuccessorOfChangedBalance ==
    (vpc = "done" /\ SingleAccount(df)) =>
        \A k \in 2..Len(validated.frame) :
            /\ AmountInjectedAt(validated.frame, k) => Flagged(validated.frame) = {k}
            /\ BalanceInjectedAt(validated.frame, k) =>
                   Flagged(validated.frame) = {k} \cup ({k + 1} \cap (1..Len(validated.frame)))

\* A changed printed balance at the second of three rows: the row itself and
\* the row after it are flagged.
C1_Witness ==
    /\ vpc = "done"
    /\ SingleAccount(df)
    /\ Len(validated.frame) = 3
    /\ BalanceInjectedAt(validated.frame, 2)
    /\ ~AmountInjectedAt(validated.frame, 2)
    /\ Flagged(validated.frame) = {2, 3}

\* C2: a single-account ledger that satisfies the balance invariant in date
\* order (equal dates in input order) comes back with no row flagged and
\* calc_balance = balance on every row.
C2_ConsistentLedgerUnflagged ==
    (vpc = "done" /\ SingleAccount(df) /\ Consistent(sort_values(df, StableIndexer(df)))) =>
        \A i \in 1..Len(validated.frame) :
            /\ ~validated.frame[i].is_balance_error
            /\ validated.frame[i].calc_balance = validated.frame[i].balance

\* C9: validate_balance given rows of more than one account raises.
C9_MixedAccountsRaise ==
    (vpc = "done" /\ ~SingleAccount(df)) => validated.raised

\* C10: rows with the same date keep their input order in the output.
C10_StableSort ==
    vpc = "done" =>
        \A i, j \in 1..Len(indexer) :
            (i < j /\ df[indexer[i]].date = df[indexer[j]].date) => indexer[i] < indexer[j]

(***************************************************************************)
(* Classification: what the claims speak of.                               *)
(***************************************************************************)

\* How many calls of a call log were made for description d.
CallsFor(calls, d) == Cardinality({k \in 1..Len(calls) : calls[k].text = d})

\* C3: in one run, in either mode, the classifiers are evaluated at most once
\* per distinct description among the target rows (classify_by_rules, and
\* call_ollama when used), and the one decision goes to all rows that have
\* the description.
C3_OneDecisionPerDescription ==
    runs >= 1 =>
        \A d \in Descriptions :
            /\ CallsFor(ruleCalls, d) <= 1
            /\ CallsFor(ollamaCalls, d) <= 1

\* C4: a run never changes a category that is not null: for every row,
\* category before # null implies category after = category before.
C4_CategorisedRowsKept ==
    runs >= 1 =>
        /\ Len(table) = Len(before)
        /\ \A i \in 1..Len(before) :
              before[i].category # None => table[i].category = before[i].category

\* A row categorised earlier keeps its category although a row with the same
\* description is classified, to another category, in the same run.
C4_Witness ==
    /\ runs >= 1
    /\ \E i, j \in 1..Len(before) :
          /\ before[i].category = zoyoutagai
          /\ before[j].category = None
          /\ before[j].description = before[i].description
          /\ table[j].category \in {seikatsuhi, sonota}
          /\ table[i].category = zoyoutagai

\* C5: a second run, in any mode and whatever the endpoint answers, returns
\* the first run's output unchanged; rows with an empty or null description
\* are left as they are by every run.
C5_Idempotent ==
    /\ runs >= 2 => table = before
    /\ runs >= 1 =>
          \A i \in 1..Len(before) :
              before[i].description \in {NaDesc, <<>>} => table[i] = before[i]

\* Two runs were made; the first classified a row, a row with an empty
\* description is still uncategorised, and the second run changed nothing.
C5_Witness ==
    /\ runs = 2
    /\ table = before
    /\ \E i, j \in 1..Len(table) :
          /\ table[i].description = <<>> /\ table[i].category = None
          /\ table[j].category \in {seikatsuhi, sonota}

\* C6: classify_by_rules decides by the first tier that matches: a living
\* expense keyword gives 生活費 whatever the amounts and other keywords;
\* otherwise an asset keyword gives 資産形成; otherwise a transfer keyword
\* gives 贈与疑い when amount_out >= 1,000,000 and 生活費 below; otherwise
\* the result is その他.
C6_RuleTiers ==
    rule_out # None =>
        LET life == AnyIn(life_keywords, rule_in.text)
            asset == AnyIn(asset_keywords, rule_in.text)
            gift == AnyIn(gift_keywords, rule_in.text)
        IN  /\ life => rule_out = seikatsuhi
            /\ (~life /\ asset) => rule_out = shisankeisei
            /\ (~life /\ ~asset /\ gift /\ rule_in.amount_out >= 1000000)
                  => rule_out = zoyoutagai
            /\ (~life /\ ~asset /\ gift /\ rule_in.amount_out < 1000000)
                  => rule_out = seikatsuhi
            /\ (~life /\ ~asset /\ ~gift) => rule_out = sonota
            /\ (rule_in.text = <<"furi", "komi">> /\ rule_in.amount_out = 2000000)
                  => rule_out = zoyoutagai
            /\ (rule_in.text = <<"furi", "komi">> /\ rule_in.amount_out = 50000)
                  => rule_out = seikatsuhi

\* イオン証券 with amount_out = 2,000,000 holds a living-expense and an asset
\* keyword and was classified 生活費.
C6_Witness ==
    /\ rule_in.text = <<"i", "o", "n", "sho", "ken">>
    /\ rule_in.amount_out = 2000000
    /\ rule_out = seikatsuhi

\* The target rows of the frame handed to the last run.
TargetsBefore == {i \in 1..Len(before) : IsTarget(before[i])}

\* What the rule engine returns for row i of that frame, on the row's own
\* description and amounts.
OwnRuleResult(i) ==
    classify_by_rules(before[i].description, before[i].amount_out, before[i].amount_in)

\* The distinct target descriptions the rule engine answers その他.
OtherDescriptions == {before[i].description : i \in {j \in TargetsBefore : OwnRuleResult(j) = sonota}}

\* The four labels.
Labels == {valid_categories[k] : k \in 1..Len(valid_categories)}

\* An answer of the endpoint that call_ollama degrades to その他: the request
\* raised, the status is not 200, or the text holds none of the labels.
Degrades(reply) ==
    \/ reply.raised
    \/ reply.status_code # 200
    \/ \A l \in Labels : ~Contains(reply.text, <<l>>)

\* C11: call_ollama is called for a description only when the rule engine
\* returns その他 for it; a description the rule engine resolves to 生活費,
\* 資産形成 or 贈与疑い causes no model call; the model calls of one run are
\* at most the distinct target descriptions whose rule result is その他.
C11_ModelCalledOnlyForOther ==
    runs >= 1 =>
        /\ \A k \in 1..Len(ollamaCalls) :
              /\ ollamaCalls[k].text \in OtherDescriptions
              /\ \A i \in TargetsBefore :
                    before[i].description = ollamaCalls[k].text => OwnRuleResult(i) = sonota
        /\ \A i \in TargetsBefore :
              OwnRuleResult(i) \in {seikatsuhi, shisankeisei, zoyoutagai} =>
                  \A k \in 1..Len(ollamaCalls) : ollamaCalls[k].text # before[i].description
        /\ Len(ollamaCalls) <= Cardinality(OtherDescriptions)

\* A run on a 振込 row and a 利息 row asked the rule engine about both and the
\* model about 利息 only.
C11_Witness ==
    /\ runs >= 1
    /\ Len(ruleCalls) = 2
    /\ Len(ollamaCalls) = 1
    /\ ollamaCalls[1].text = <<"ri", "soku">>
    /\ \E i \in TargetsBefore :
          /\ before[i].description = <<"furi", "komi">>
          /\ table[i].category = zoyoutagai

C13_AlwaysALabel ==
    runs >= 1 =>
        /\ \A k \in 1..Len(ollamaCalls) :
              /\ ollamaCalls[k].result \in Labels
              /\ Degrades(ollamaCalls[k].reply) => ollamaCalls[k].result = sonota
        /\ \A i \in TargetsBefore : table[i].category \in Labels

\* A description went to the model and got a 200 answer without a label:
\* the call returned その他 and the rows with that description hold it.
C13_Witness ==
    /\ runs >= 1
    /\ \E k \in 1..Len(ollamaCalls) :
          /\ ollamaCalls[k].reply.status_code = 200
          /\ ollamaCalls[k].reply.text = <<"fu", "mei">>
          /\ ollamaCalls[k].result = sonota
          /\ \E i \in TargetsBefore :
                /\ before[i].description = ollamaCalls[k].text
                /\ table[i].category = sonota

\* C15: with use_ollama = False every target row receives the category
\* classify_by_rules returns for that row's own description, amount_out and
\* amount_in (two 振込 rows of 2,000,000 and 50,000 end 贈与疑い and 生活費).
C15_RuleOnlyUsesOwnAmounts ==
    (runs >= 1 /\ use_ollama = "False") =>
        \A i \in TargetsBefore : table[i].category = OwnRuleResult(i)

\* C16: when every model call degrades to その他, a run with
\* use_ollama = True returns the table a run with use_ollama = False returns
\* on the same input.
C16_FailingOllamaEqualsRuleOnly ==
    (/\ runs >= 1
     /\ use_ollama = "True"
     /\ \A k \in 1..Len(ollamaCalls) : Degrades(ollamaCalls[k].reply)) =>
        table = FanOut(before, RuleBranchMap(RuleBranchCalls(before)))

(***************************************************************************)
(* Transfer matcher: what the claims speak of.                             *)
(***************************************************************************)

\* The incoming rows consumed before the outgoing row at place k of the
\* processing order had its turn.
ConsumedBefore(k) ==
    {matchLog[n].i : n \in {m \in 1..Len(matchLog) :
                              \E a \in 1..(k - 1) : outOrder[a] = matchLog[m].o}}

\* The unconsumed incoming rows within window and tolerance of outgoing row
\* outOrder[k], in another account.
CandidatesAt(k) ==
    {i \in 1..Len(db) :
        /\ db[i].amount_in > 0
        /\ i \notin ConsumedBefore(k)
        /\ db[i].account_id # db[outOrder[k]].account_id
        /\ Abs(db[i].date - db[outOrder[k]].date) <= 3
        /\ Abs(db[i].amount_in - db[outOrder[k]].amount_out) <= 500}

\* C7: every accepted pair joins an outgoing row (amount_out > 0) and an
\* incoming row (amount_in > 0) of another account, at most window_days apart
\* and at most tolerance apart in amount; a row is flagged only as a leg of
\* such a pair, so an outflow and an inflow further apart than the window
\* (and with no other partner) both stay is_transfer = false, transfer_to null.
C7_AcceptedPairsAreEligible ==
    /\ \A n \in 1..Len(matchLog) :
          LET o == db[matchLog[n].o]
              i == db[matchLog[n].i]
          IN  /\ o.amount_out > 0
              /\ i.amount_in > 0
              /\ i.account_id # o.account_id
              /\ Abs(i.date - o.date) <= 3
              /\ Abs(i.amount_in - o.amount_out) <= 500
    /\ \A k \in 1..Len(db) :
          /\ db[k].is_transfer =>
                \E n \in 1..Len(matchLog) : matchLog[n].o = k \/ matchLog[n].i = k
          /\ db[k].transfer_to # NoTransfer =>
                \E n \in 1..Len(matchLog) :
                    /\ matchLog[n].o = k
                    /\ db[k].transfer_to[1] = db[matchLog[n].i].account_id
                    /\ db[k].transfer_to[3] = db[matchLog[n].i].date
    /\ (/\ Len(db) = 2
        /\ db[1].amount_out > 0 /\ db[1].date = 10
        /\ db[2].amount_in > 0 /\ db[2].date = 14)
          => \A k \in 1..2 : ~db[k].is_transfer /\ db[k].transfer_to = NoTransfer

\* A pair at the edge of window and tolerance (3 days, 500 units) is
\* accepted, and an outflow 4 days from the same inflow stays unmatched.
C7_Witness ==
    /\ \E n \in 1..Len(matchLog) :
          /\ Abs(db[matchLog[n].i].date - db[matchLog[n].o].date) = 3
          /\ Abs(db[matchLog[n].i].amount_in - db[matchLog[n].o].amount_out) = 500
          /\ db[matchLog[n].o].is_transfer /\ db[matchLog[n].i].is_transfer
          /\ \E k \in 1..Len(db) :
                /\ db[k].amount_out > 0
                /\ db[k].account_id # db[matchLog[n].i].account_id
                /\ Abs(db[k].date - db[matchLog[n].i].date) > 3
                /\ ~db[k].is_transfer
                /\ db[k].transfer_to = NoTransfer

\* C8: an outgoing row with unconsumed eligible incoming candidates is paired
\* with the candidate that minimises (|amount difference|, |date
\* difference|), ties going to the earlier row of the table; among
\* candidates of equal amount difference the closer date wins; no incoming
\* row is consumed by two outgoing rows.
C8_BestCandidateChosen ==
    /\ \A k \in 1..Len(outOrder) :
          LET o == outOrder[k]
              C == CandidatesAt(k)
              amt(i) == Abs(db[i].amount_in - db[o].amount_out)
              day(i) == Abs(db[i].date - db[o].date)
          IN  IF C = {}
              THEN \A n \in 1..Len(matchLog) : matchLog[n].o # o
              ELSE \E n \in 1..Len(matchLog) :
                      /\ matchLog[n].o = o
                      /\ matchLog[n].i \in C
                      /\ \A j \in C \ {matchLog[n].i} :
                            \/ amt(matchLog[n].i) < amt(j)
                            \/ amt(matchLog[n].i) = amt(j) /\ day(matchLog[n].i) < day(j)
                            \/ /\ amt(matchLog[n].i) = amt(j)
                               /\ day(matchLog[n].i) = day(j)
                               /\ matchLog[n].i < j
    /\ \A n, m \in 1..Len(matchLog) : n # m => matchLog[n].i # matchLog[m].i

\* An outflow had two candidates of equal amount difference; the one closer
\* in date was taken although the other comes first in the table.
C8_Witness ==
    \E n \in 1..Len(matchLog) :
        \E j \in 1..Len(db) :
            LET o == db[matchLog[n].o]
                i == db[matchLog[n].i]
            IN  /\ j < matchLog[n].i
                /\ ~db[j].is_transfer
                /\ db[j].amount_in > 0
                /\ db[j].account_id # o.account_id
                /\ Abs(db[j].date - o.date) <= 3
                /\ Abs(db[j].amount_in - o.amount_out) = Abs(i.amount_in - o.amount_out)
                /\ Abs(db[j].date - o.date) > Abs(i.date - o.date)

(***************************************************************************)
(* Analysis page and case list page: what the claims speak of.             *)
(***************************************************************************)

\* The incoming rows in the account and on the date that out_row's
\* transfer_to records.
ReferencedIncoming(t, out_row) ==
    {j \in 1..Len(t) :
        /\ t[j].account_id = out_row.transfer_to[1]
        /\ t[j].date = out_row.transfer_to[3]
        /\ t[j].amount_in > 0}

\* The page shows the case's table as it is now.
Rendered == db # <<>> /\ display_list = RenderPage(db)

\* C14: for every outgoing row with is_transfer = true and transfer_to set
\* (its incoming leg being in the table), the transfer list shows as its
\* counterpart an incoming row of the referenced account on the date
\* recorded in transfer_to, also when that date is not the outgoing row's.
C14_DisplayRecoversIncomingLeg ==
    Rendered =>
        \A k \in 1..Len(db) :
            (/\ db[k].is_transfer
             /\ db[k].amount_out > 0
             /\ db[k].transfer_to # NoTransfer
             /\ ReferencedIncoming(db, db[k]) # {}) =>
                \E n \in 1..Len(display_list) :
                    /\ display_list[n].out_row = k
                    /\ display_list[n].in_row \in ReferencedIncoming(db, db[k])

\* C17: the persisted table has no dangling transfer: the counterpart of
\* every row with is_transfer = true is in the table, and every transfer_to
\* names an account that has rows in the table.
C17_NoDanglingTransfer ==
    \A k \in 1..Len(db) :
        /\ (db[k].is_transfer /\ db[k].amount_out > 0) =>
              \E j \in 1..Len(db) :
                  /\ db[j].is_transfer
                  /\ db[j].amount_in > 0
                  /\ FormatTransferTo(db[j]) = db[k].transfer_to
        /\ (db[k].is_transfer /\ db[k].amount_in > 0) =>
              \E j \in 1..Len(db) :
                  /\ db[j].is_transfer
                  /\ db[j].amount_out > 0
                  /\ db[j].transfer_to = FormatTransferTo(db[k])
        /\ db[k].transfer_to # NoTransfer =>
              \E j \in 1..Len(db) : db[j].account_id = db[k].transfer_to[1]

\* C18: current_case is unset or names a case that exists; a case goes away
\* only by the confirm step of that case's dialog, which is open only after
\* a delete request for that case (the confirm key is set by that request
\* alone); cancel removes nothing.
C18_CurrentCaseExists ==
    /\ current_case = None \/ current_case \in cases
    /\ confirm_delete \subseteq cases
    /\ last_click.found \ cases # {} =>
          /\ last_click.button = "confirm_yes"
          /\ last_click.found \ cases = {last_click.case}
          /\ last_click.case \in last_click.asked
    /\ confirm_delete \ last_click.asked # {} =>
          /\ last_click.button = "delete"
          /\ confirm_delete \ last_click.asked = {last_click.case}
    /\ last_click.button = "confirm_no" =>
          /\ cases = last_click.found
          /\ current_case = last_click.selected

\* The selected case was deleted by its confirm step while another case
\* stayed: current_case is unset.
C18_Witness ==
    /\ last_click.button = "confirm_yes"
    /\ last_click.selected = last_click.case
    /\ last_click.case \notin cases
    /\ cases # {}
    /\ current_case = None

====
